---- MODULE Spec2Model ----
(***************************************************************************)
(* Reconciliation and category normalisation of extract-results-usac:      *)
(* parse_heat_category (src/main.py), the alignment loop of main() and the  *)
(* scrapers that feed it (src/scraper.py), and the merger from_components   *)
(* (src/models.py).                                                         *)
(*                                                                          *)
(* Representation.  Text is a tuple of one-character strings, so that the   *)
(* regular expression of parse_heat_category is executed character by       *)
(* character.  A Python Optional is a tuple of length 0 (None) or 1.        *)
(***************************************************************************)
EXTENDS Integers, Sequences, FiniteSets, TLC

VARIABLES
    token,                    \* parse_heat_category: the argument s
    parse_result,             \* parse_heat_category: what the call gave
    components,               \* from_components: Optional arguments of a call
    detailed_result,          \* from_components: what the call gave
    place_participant,        \* split_place: the argument
    split_result,             \* split_place: what the call gave
    athlete_results_filtered, \* main: the filtered summary records
    use_cached,               \* main: the --use-cached flag (which scraper)
    site,                     \* url -> the series tree the publisher / cache holds
    series,                   \* url -> Optional race_series_results (mutated in place)
    gi, ei, hi, ri,           \* main: positions of the four nested loops
    pc,                       \* main: where the run is
    err,                      \* the exception that ended the run, or "none"
    detailed_results,         \* main: the output list
    exported                  \* Optional rows of detailed_results_export.csv

parse_vars == <<token, parse_result>>
merge_vars == <<components, detailed_result>>
split_vars == <<place_participant, split_result>>
main_vars == <<athlete_results_filtered, use_cached, site, series, gi, ei, hi, ri,
               pc, err, detailed_results, exported>>
call_vars == <<parse_vars, merge_vars, split_vars>>
vars == <<call_vars, main_vars>>

None == <<>>
Some(x) == <<x>>
IsNone(o) == Len(o) = 0
Get(o) == o[1]

(***************************************************************************)
(* Bounds of the model.                                                     *)
(***************************************************************************)
MaxTokLen == 2        \* free-text tokens: every text up to this length
MaxDigits == 2        \* digit runs of the structured tokens
MaxRoster == 3        \* rows of a roster, where rosters vary freely
MaxEvents == 2        \* races of a series, where series vary
MaxHeats == 2         \* heats of a race, where races vary
MaxRecords == 2       \* summary records of the athlete, where they vary

\* every sequence over alphabet of length at most n
RECURSIVE SeqsUpTo(_, _)
SeqsUpTo(alphabet, n) ==
    IF n = 0 THEN {<<>>}
    ELSE LET shorter == SeqsUpTo(alphabet, n - 1)
         IN  shorter \cup {Append(t, c) : t \in shorter, c \in alphabet}

(***************************************************************************)
(* Characters.                                                              *)
(***************************************************************************)
DigitChars == {"0", "1", "2", "3", "4", "5", "6", "7", "8", "9"}
IsDigit(c) == c \in DigitChars
IsSpace(c) == c = " "

\* int() of one decimal digit
DigitVal(c) ==
    CASE c = "0" -> 0 [] c = "1" -> 1 [] c = "2" -> 2 [] c = "3" -> 3 [] c = "4" -> 4
      [] c = "5" -> 5 [] c = "6" -> 6 [] c = "7" -> 7 [] c = "8" -> 8 [] c = "9" -> 9

\* int(text) of a non-empty digit string: Python's int, of unbounded width
RECURSIVE IntOf(_)
IntOf(ds) ==
    IF Len(ds) = 0 THEN 0
    ELSE 10 * IntOf(SubSeq(ds, 1, Len(ds) - 1)) + DigitVal(ds[Len(ds)])

\* re.IGNORECASE on the literal "Cat"
Lower(c) == CASE c = "C" -> "c" [] c = "A" -> "a" [] c = "T" -> "t" [] OTHER -> c

(***************************************************************************)
(* re.search(r"(\d+)\s*-\s*Cat(\d+)", s, re.IGNORECASE)                      *)
(* Positions are 1-based; a position Len(s)+1 is the end of the text.       *)
(***************************************************************************)
\* end of the greedy run \d* starting at i (first position that is no digit)
RECURSIVE DigitRunEnd(_, _)
DigitRunEnd(s, i) ==
    IF i <= Len(s) /\ IsDigit(s[i]) THEN DigitRunEnd(s, i + 1) ELSE i

\* end of the greedy run \s* starting at i
RECURSIVE SpaceRunEnd(_, _)
SpaceRunEnd(s, i) ==
    IF i <= Len(s) /\ IsSpace(s[i]) THEN SpaceRunEnd(s, i + 1) ELSE i

\* the literal "Cat" at i, letter case ignored
CatAt(s, i) ==
    /\ i + 2 <= Len(s)
    /\ Lower(s[i]) = "c"
    /\ Lower(s[i + 1]) = "a"
    /\ Lower(s[i + 2]) = "t"

\* The match attempt anchored at i.  Both \d+ and \s* are followed by something
\* they cannot match themselves ('-' or a letter), so no shorter repetition can
\* succeed where the greedy one fails: the attempt is the greedy one.
MatchAt(s, i) ==
    LET j == DigitRunEnd(s, i)
        k == SpaceRunEnd(s, j)
        l == SpaceRunEnd(s, k + 1)
        m == l + 3
        n == DigitRunEnd(s, m)
    IN  IF /\ j > i
           /\ k <= Len(s) /\ s[k] = "-"
           /\ CatAt(s, l)
           /\ n > m
        THEN Some([g1 |-> SubSeq(s, i, j - 1), g2 |-> SubSeq(s, m, n - 1)])
        ELSE None

\* re.search: the attempt at the leftmost position where one succeeds
RECURSIVE SearchFrom(_, _)
SearchFrom(s, i) ==
    IF i > Len(s) THEN None
    ELSE IF ~IsNone(MatchAt(s, i)) THEN MatchAt(s, i)
    ELSE SearchFrom(s, i + 1)

re_search(s) == SearchFrom(s, 1)

(***************************************************************************)
(* parse_heat_category(s).  ok = FALSE is the ValueError.                   *)
(***************************************************************************)
Parsed(place, cat) == [ok |-> TRUE, place |-> place, cat |-> cat]
ValueError == [ok |-> FALSE, place |-> None, cat |-> None]

\* a slip: the test of line 117 left out, so that None reaches re.search and raises
parse_heat_category_without_null_test(s) ==
    IF IsNone(s) THEN ValueError
    ELSE LET match == re_search(Get(s))
         IN  IF IsNone(match) THEN ValueError
             ELSE Parsed(Some(IntOf(Get(match).g1)), Some(Get(match).g2))

\* a slip the round trip must catch: the category code converted like the place,
\* int(match.group(2)), which drops the leading zeros of the text
RECURSIVE StripZeros(_)
StripZeros(ds) ==
    IF Len(ds) > 1 /\ ds[1] = "0" THEN StripZeros(Tail(ds)) ELSE ds

parse_heat_category_numeric_code(s) ==
    IF IsNone(s) THEN Parsed(None, None)
    ELSE LET match == re_search(Get(s))
         IN  IF IsNone(match) THEN ValueError
             ELSE Parsed(Some(IntOf(Get(match).g1)), Some(StripZeros(Get(match).g2)))

parse_heat_category(s) ==
    IF IsNone(s) THEN Parsed(None, None)
    ELSE LET match == re_search(Get(s))
         IN  IF IsNone(match) THEN ValueError
             ELSE Parsed(Some(IntOf(Get(match).g1)), Some(Get(match).g2))

(***************************************************************************)
(* Records.                                                                 *)
(*   AthleteResult (summary record): row stands for the fields that only    *)
(*     travel with the record (title, points, time): its row on the page.   *)
(*   AthleteResultHeat (roster row): annotated says whether the extra        *)
(*     attributes parsed_place / parsed_cat have been set on the object.     *)
(***************************************************************************)
AthleteResult(row, name, event_date, event_url) ==
    [row |-> row, name |-> name, event_date |-> event_date, event_url |-> event_url]

AthleteResultHeat(place, name, category) ==
    [place |-> Some(place), name |-> name, category |-> category,
     annotated |-> FALSE, parsed_place |-> None, parsed_cat |-> None]

Heat(heat_id, participants) == [heat_id |-> heat_id, participants |-> participants]

RaceEvent(id, event_date, heats) == [id |-> id, event_date |-> event_date, heats |-> heats]

(***************************************************************************)
(* group_by_event_url and the by-date grouping of main().  Groups hold the  *)
(* records themselves, in the order of the filtered list.                   *)
(***************************************************************************)
\* the keys of the dict, in insertion order: first appearance of each url
RECURSIVE GroupKeys(_, _)
GroupKeys(results, seen) ==
    IF results = <<>> THEN <<>>
    ELSE IF Head(results).event_url \in seen THEN GroupKeys(Tail(results), seen)
    ELSE <<Head(results).event_url>>
            \o GroupKeys(Tail(results), seen \cup {Head(results).event_url})

group_by_event_url(results) ==
    [keys  |-> GroupKeys(results, {}),
     group |-> [u \in {results[i].event_url : i \in 1..Len(results)} |->
                   SelectSeq(results, LAMBDA r : r.event_url = u)]]

groups == group_by_event_url(athlete_results_filtered)

\* a slip: the lookup of line 198 without its key, every record of the group
athlete_results_by_date_any_date(group, d) == group

\* athlete_results_by_date.get(d): the list, empty when the date is no key
athlete_results_by_date(group, d) == SelectSeq(group, LAMBDA ar : ar.event_date = d)

(***************************************************************************)
(* WebScraper.scrape_event_series_page on a page that lists its races in a  *)
(* table: a race is scraped when exactly one record has its date; more than *)
(* one record on a listed date is a ValueError.                             *)
(***************************************************************************)
RECURSIVE ScrapeRows(_, _)
ScrapeRows(rows, athlete_results) ==
    IF rows = <<>> THEN [ok |-> TRUE, events |-> <<>>]
    ELSE LET matching_results ==
                 SelectSeq(athlete_results, LAMBDA ar : ar.event_date = Head(rows).event_date)
             rest == ScrapeRows(Tail(rows), athlete_results)
         IN  IF Len(matching_results) > 1 THEN [ok |-> FALSE, events |-> <<>>]
             ELSE IF ~rest.ok THEN rest
             ELSE IF Len(matching_results) = 1
                  THEN [ok |-> TRUE, events |-> <<Head(rows)>> \o rest.events]
             ELSE rest

(***************************************************************************)
(* The body of the innermost loop of main(), lines 203-236.                 *)
(***************************************************************************)
\* matches = [p for p in heat.participants if p.name == athlete_result.name],
\* as positions in the roster
Matches(participants, name) ==
    {i \in 1..Len(participants) : participants[i].name = name}

\* a slip: the test of line 219 left out, every row counted
RECURSIVE AnnotateFrom_counts_every_row(_, _, _, _)
AnnotateFrom_counts_every_row(participants, i, parsed_cat, count) ==
    IF i > Len(participants)
    THEN [ok |-> TRUE, participants |-> participants, participants_in_cat |-> count]
    ELSE LET r == parse_heat_category(participants[i].category)
         IN  IF ~r.ok
             THEN [ok |-> FALSE, participants |-> participants, participants_in_cat |-> count]
             ELSE AnnotateFrom_counts_every_row(
                     [participants EXCEPT ![i].annotated = TRUE,
                                          ![i].parsed_place = r.place,
                                          ![i].parsed_cat = r.cat],
                     i + 1, parsed_cat, count + 1)

\* a slip: rows annotated by an earlier pass are passed over, uncounted
RECURSIVE AnnotateFrom_skips_annotated(_, _, _, _)
AnnotateFrom_skips_annotated(participants, i, parsed_cat, count) ==
    IF i > Len(participants)
    THEN [ok |-> TRUE, participants |-> participants, participants_in_cat |-> count]
    ELSE IF participants[i].annotated
         THEN AnnotateFrom_skips_annotated(participants, i + 1, parsed_cat, count)
    ELSE LET r == parse_heat_category(participants[i].category)
         IN  IF ~r.ok
             THEN [ok |-> FALSE, participants |-> participants, participants_in_cat |-> count]
             ELSE AnnotateFrom_skips_annotated(
                     [participants EXCEPT ![i].annotated = TRUE,
                                          ![i].parsed_place = r.place,
                                          ![i].parsed_cat = r.cat],
                     i + 1, parsed_cat,
                     IF r.cat = parsed_cat THEN count + 1 ELSE count)

\* the annotation loop of lines 215-220, from row i on; it stops at the first
\* token that does not parse, leaving the rows before it annotated
RECURSIVE AnnotateFrom(_, _, _, _)
AnnotateFrom(participants, i, parsed_cat, count) ==
    IF i > Len(participants)
    THEN [ok |-> TRUE, participants |-> participants, participants_in_cat |-> count]
    ELSE LET r == parse_heat_category(participants[i].category)
         IN  IF ~r.ok
             THEN [ok |-> FALSE, participants |-> participants, participants_in_cat |-> count]
             ELSE AnnotateFrom(
                     [participants EXCEPT ![i].annotated = TRUE,
                                          ![i].parsed_place = r.place,
                                          ![i].parsed_cat = r.cat],
                     i + 1, parsed_cat,
                     IF r.cat = parsed_cat THEN count + 1 ELSE count)

\* a slip: the key without the test for 0, a raw place of 0 sorting first
SortKey_zero_first(p) ==
    IF IsNone(p.parsed_place) THEN <<1, 0>> ELSE <<0, Get(p.parsed_place)>>

\* key=lambda p: float('inf') if (p.parsed_place is None or p.parsed_place == 0)
\*               else p.parsed_place;  <<1, 0>> is float('inf')
SortKey(p) ==
    IF IsNone(p.parsed_place) \/ Get(p.parsed_place) = 0 THEN <<1, 0>>
    ELSE <<0, Get(p.parsed_place)>>

KeyLess(a, b) == a[1] < b[1] \/ (a[1] = b[1] /\ a[2] < b[2])

\* sorted(): stable, an element goes behind every element whose key is not larger
RECURSIVE InsertByKey(_, _)
InsertByKey(sorted_part, p) ==
    IF sorted_part = <<>> THEN <<p>>
    ELSE IF KeyLess(SortKey(p), SortKey(Head(sorted_part)))
         THEN <<p>> \o sorted_part
    ELSE <<Head(sorted_part)>> \o InsertByKey(Tail(sorted_part), p)

RECURSIVE SortedFrom(_, _, _)
SortedFrom(participants, i, acc) ==
    IF i > Len(participants) THEN acc
    ELSE SortedFrom(participants, i + 1, InsertByKey(acc, participants[i]))

sorted(participants) == SortedFrom(participants, 1, <<>>)

\* list.index(x): the first position holding an element equal to x
index(list, x) == CHOOSE i \in 1..Len(list) : list[i] = x /\ \A j \in 1..(i - 1) : list[j] # x

\* a slip: line 225 without its + 1 (index is 1-based here, 0-based there)
Ranked_zero_based(annotated, t, parsed_cat) ==
    index(sorted(SelectSeq(annotated, LAMBDA p : p.parsed_cat = parsed_cat)), annotated[t]) - 1

\* a slip: the whole roster ranked, line 222 without its filter
Ranked_whole_roster(annotated, t, parsed_cat) ==
    index(sorted(annotated), annotated[t])

\* lines 221-225: the rank of row t among the annotated rows of its category
Ranked(annotated, t, parsed_cat) ==
    index(sorted(SelectSeq(annotated, LAMBDA p : p.parsed_cat = parsed_cat)), annotated[t])

Failed(participants) ==
    [ok |-> FALSE, participants |-> participants, participants_in_cat |-> 0, place_in_cat |-> 0]

\* lines 221-235 once the annotation loop has run
AfterAnnotation(ann, t, parsed_cat) ==
    IF ~ann.ok THEN Failed(ann.participants)
    ELSE [ok |-> TRUE, participants |-> ann.participants,
          participants_in_cat |-> ann.participants_in_cat,
          place_in_cat |-> Ranked(ann.participants, t, parsed_cat)]

\* lines 213-235 once the matched row's own token has been parsed
AfterTargetParse(participants, t, target) ==
    IF ~target.ok THEN Failed(participants)
    ELSE AfterAnnotation(
             AnnotateFrom([participants EXCEPT ![t].place = target.place], 1, target.cat, 0),
             t, target.cat)

\* lines 212-225 for the matched row at position t of the roster
Normalize(participants, t) ==
    AfterTargetParse(participants, t, parse_heat_category(participants[t].category))

(***************************************************************************)
(* AthleteResultDetailed.from_components (src/models.py).  ok = FALSE is the *)
(* ValueError of the name check.                                            *)
(***************************************************************************)
\* dict.update: the keys of more are set, over what data held under them
update(data, more) ==
    [f \in (DOMAIN data) \cup (DOMAIN more) |->
        IF f \in DOMAIN more THEN more[f] ELSE data[f]]

\* lines 134-139: the four fields taken from the heat row (of which a row of
\* the model carries those it was built with)
heat_result_fields(heat_result) ==
    [f \in {"category", "usac_number", "bib", "team"} \cap DOMAIN heat_result |->
        heat_result[f]]

\* a slip: the name check of lines 128-129 left out
from_components_unchecked(result, heat_result, heat, event, participants_in_cat, place_in_cat) ==
    [ok |-> TRUE,
     value |-> Some(update(update(update(update(result,
                      heat_result_fields(heat_result)),
                      [heat_id |-> heat.heat_id]),
                      [race_event_id |-> event.id]),
                      [participants_in_cat |-> participants_in_cat,
                       place_in_cat |-> place_in_cat]))]

\* data = result.dict(), then the updates of lines 134-159 in their order
from_components(result, heat_result, heat, event, participants_in_cat, place_in_cat) ==
    IF result.name # heat_result.name
    THEN [ok |-> FALSE, value |-> None]
    ELSE [ok |-> TRUE,
          value |-> Some(update(update(update(update(result,
                           heat_result_fields(heat_result)),
                           [heat_id |-> heat.heat_id]),
                           [race_event_id |-> event.id]),
                           [participants_in_cat |-> participants_in_cat,
                            place_in_cat |-> place_in_cat]))]

\* the columns of detailed_results_export.csv the model keeps
ExportRow(dr) ==
    [event_date |-> dr.event_date, event_url |-> dr.event_url, heat_id |-> dr.heat_id,
     place_in_cat |-> dr.place_in_cat, participants_in_cat |-> dr.participants_in_cat]

(***************************************************************************)
(* Inputs of a run: the filtered summary records, the scraper in use and,   *)
(* for each event url, the series the publisher (or the cache) holds.       *)
(* Four families, each varying one dimension.                               *)
(***************************************************************************)
Urls == {"u1", "u2"}
Names == {"A. Rider", "B. Other"}
Dates == {1, 2}

Tok(p, c) == Some(<<p, " ", "-", " ", "C", "a", "t", c>>)
DNF == Some(<<"D", "N", "F">>)

\* a roster from <<name, category>> pairs; the scraped place is the row's rank
Roster(rows) ==
    [i \in 1..Len(rows) |-> AthleteResultHeat(i, rows[i][1], rows[i][2])]

\* a series tree from <<date, <<rows of heat 1, rows of heat 2, ...>> >> pairs
Tree(evs) ==
    [e \in 1..Len(evs) |->
        RaceEvent(e, evs[e][1],
                  [h \in 1..Len(evs[e][2]) |-> Heat(<<e, h>>, Roster(evs[e][2][h]))])]

Records(triples) ==
    [i \in 1..Len(triples) |-> AthleteResult(i, triples[i][1], triples[i][2], triples[i][3])]

NonEmpty(S) == S \ {<<>>}

\* tokens of the rosters that vary freely: every one parses
FreeTokens ==
    {None, Tok("0", "2"), Tok("2", "2"), Tok("5", "2"), Tok("2", "3")}

\* a roster with the athlete on row t and another rider on the other rows
FreeRoster(toks, t) ==
    [i \in 1..Len(toks) |-> <<IF i = t THEN "A. Rider" ELSE "B. Other", toks[i]>>]

\* rosters of the families that vary something else
EventRosters ==
    { << <<"A. Rider", Tok("3", "2")>> >>,
      << <<"A. Rider", DNF>> >>,
      << <<"A. Rider", Tok("1", "2")>>, <<"A. Rider", Tok("2", "2")>> >> }

HeatRosters ==
    { <<>>,
      << <<"A. Rider", Tok("3", "2")>>, <<"B. Other", Tok("1", "2")>> >>,
      << <<"A. Rider", Tok("1", "2")>>, <<"B. Other", DNF>> >>,
      << <<"B. Other", Tok("1", "2")>>, <<"B. Other", DNF>> >>,
      << <<"A. Rider", None>>, <<"B. Other", Tok("1", "3")>>, <<"B. Other", Tok("2", "3")>> >> }

SeriesRosters ==
    { << <<"A. Rider", Tok("3", "2")>>, <<"B. Other", Tok("1", "2")>> >>,
      << <<"A. Rider", DNF>> >>,
      << <<"B. Other", Tok("1", "2")>> >> }

\* no call of the functions that are examined on their own
ParseIdle == token = None /\ parse_result = None
MergeIdle == components = None /\ detailed_result = None
SplitIdle == place_participant = None /\ split_result = None

Start ==
    /\ series = [u \in Urls |-> None]
    /\ gi = 1 /\ ei = 0 /\ hi = 0 /\ ri = 0
    /\ pc = "scrape"
    /\ err = "none"
    /\ detailed_results = <<>>
    /\ exported = None
    /\ ParseIdle /\ MergeIdle /\ SplitIdle

\* one race, one heat, the roster free; one or two records on the race's date
InitRoster ==
    \E toks \in NonEmpty(SeqsUpTo(FreeTokens, MaxRoster)),
       t \in 1..MaxRoster,
       names \in {<<"A. Rider">>, <<"A. Rider", "B. Other">>} :
        /\ t <= Len(toks)
        /\ athlete_results_filtered =
               Records([i \in 1..Len(names) |-> <<names[i], 1, "u1">>])
        /\ use_cached = TRUE
        /\ site = [u \in Urls |-> IF u = "u1" THEN Tree(<< <<1, <<FreeRoster(toks, t)>> >> >>) ELSE <<>>]

\* the races of one series and the dates of the records vary
InitEvents ==
    \E evs \in NonEmpty(SeqsUpTo(Dates \X EventRosters, MaxEvents)),
       dates \in NonEmpty(SeqsUpTo(Dates, MaxRecords)) :
        /\ athlete_results_filtered =
               Records([i \in 1..Len(dates) |-> <<"A. Rider", dates[i], "u1">>])
        /\ use_cached \in BOOLEAN
        /\ site = [u \in Urls |->
                     IF u = "u1"
                     THEN Tree([e \in 1..Len(evs) |-> <<evs[e][1], <<evs[e][2]>> >>])
                     ELSE <<>>]

\* the heats of one race and the names of the records vary
InitHeats ==
    \E heats \in SeqsUpTo(HeatRosters, MaxHeats),
       names \in NonEmpty(SeqsUpTo(Names, MaxRecords)) :
        /\ athlete_results_filtered =
               Records([i \in 1..Len(names) |-> <<names[i], 1, "u1">>])
        /\ use_cached \in BOOLEAN
        /\ site = [u \in Urls |-> IF u = "u1" THEN Tree(<< <<1, heats>> >>) ELSE <<>>]

\* the event urls of the records vary: one series or two
InitSeries ==
    \E urls \in NonEmpty(SeqsUpTo(Urls, MaxRecords)),
       rosters \in [Urls -> SeriesRosters] :
        /\ athlete_results_filtered =
               Records([i \in 1..Len(urls) |-> <<"A. Rider", 1, urls[i]>>])
        /\ use_cached \in BOOLEAN
        /\ site = [u \in Urls |-> Tree(<< <<1, <<rosters[u]>> >> >>)]

Init == Start /\ (InitRoster \/ InitEvents \/ InitHeats \/ InitSeries)

(***************************************************************************)
(* main(), lines 186-270.                                                   *)
(***************************************************************************)
athlete_result_url == groups.keys[gi]
group == groups.group[athlete_result_url]
race_series_results == Get(series[athlete_result_url])
event == race_series_results[ei]
matching_results == athlete_results_by_date(group, event.event_date)
heat == event.heats[hi]
athlete_result == matching_results[ri]
matches == Matches(heat.participants, athlete_result.name)
heat_result_at == CHOOSE i \in matches : \A j \in matches : i <= j

\* a slip: the error noted and the run carried on to the export
Raise_and_carry_on(e) ==
    /\ pc' = "export"
    /\ err' = e
    /\ UNCHANGED <<gi, ei, hi, ri, detailed_results, exported>>

\* an exception leaves main(): nothing in main() catches it
Raise(e) ==
    /\ pc' = "failed"
    /\ err' = e
    /\ UNCHANGED <<gi, ei, hi, ri, detailed_results, exported>>

\* line 189 with the CachedDataScraper: the cached tree, whatever the records
ScrapeCached ==
    /\ pc = "scrape"
    /\ use_cached
    /\ series' = [series EXCEPT ![athlete_result_url] = Some(site[athlete_result_url])]
    /\ pc' = "event" /\ ei' = 1
    /\ UNCHANGED <<gi, hi, ri, err, detailed_results, exported>>
    /\ UNCHANGED <<athlete_results_filtered, use_cached, site, call_vars>>

\* line 189 with the WebScraper, the page showing its only race inline
\* (scraper.py 332-336)
ScrapeInline ==
    /\ pc = "scrape"
    /\ ~use_cached
    /\ Len(site[athlete_result_url]) = 1
    /\ series' = [series EXCEPT ![athlete_result_url] = Some(site[athlete_result_url])]
    /\ pc' = "event" /\ ei' = 1
    /\ UNCHANGED <<gi, hi, ri, err, detailed_results, exported>>
    /\ UNCHANGED <<athlete_results_filtered, use_cached, site, call_vars>>

\* line 189 with the WebScraper, the page listing its races in a table
\* (scraper.py 337-365)
ScrapeTable ==
    /\ pc = "scrape"
    /\ ~use_cached
    /\ Len(site[athlete_result_url]) >= 1
    /\ LET scraped == ScrapeRows(site[athlete_result_url], group)
       IN  IF scraped.ok
           THEN /\ series' = [series EXCEPT ![athlete_result_url] = Some(scraped.events)]
                /\ pc' = "event" /\ ei' = 1
                /\ UNCHANGED <<gi, hi, ri, err, detailed_results, exported>>
           ELSE /\ Raise("multiple_results")
                /\ UNCHANGED series
    /\ UNCHANGED <<athlete_results_filtered, use_cached, site, call_vars>>

AtEvent == pc = "event" /\ ei <= Len(race_series_results)

\* lines 198-200: no record on the race's date
SkipEvent ==
    /\ AtEvent
    /\ matching_results = <<>>
    /\ ei' = ei + 1
    /\ UNCHANGED <<series, gi, hi, ri, pc, err, detailed_results, exported>>
    /\ UNCHANGED <<athlete_results_filtered, use_cached, site, call_vars>>

\* line 201: the first heat of a race that has records on its date
EnterEvent ==
    /\ AtEvent
    /\ matching_results # <<>>
    /\ IF event.heats = <<>>
       THEN ei' = ei + 1 /\ UNCHANGED <<pc, hi, ri>>
       ELSE pc' = "pair" /\ hi' = 1 /\ ri' = 1 /\ UNCHANGED ei
    /\ UNCHANGED <<series, gi, err, detailed_results, exported>>
    /\ UNCHANGED <<athlete_results_filtered, use_cached, site, call_vars>>

\* a slip: the loops of lines 201-202 nested the other way round
StepPair_records_outside ==
    IF hi < Len(event.heats) THEN hi' = hi + 1 /\ UNCHANGED <<pc, ei, ri>>
    ELSE IF ri < Len(matching_results) THEN ri' = ri + 1 /\ hi' = 1 /\ UNCHANGED <<pc, ei>>
    ELSE pc' = "event" /\ ei' = ei + 1 /\ hi' = 0 /\ ri' = 0

\* a slip: a break after the pair, the rest of the race left out
StepPair_leaves_event == pc' = "event" /\ ei' = ei + 1 /\ hi' = 0 /\ ri' = 0

\* the loops of lines 196-202 step to the next record, heat or race
StepPair ==
    IF ri < Len(matching_results) THEN ri' = ri + 1 /\ UNCHANGED <<pc, ei, hi>>
    ELSE IF hi < Len(event.heats) THEN hi' = hi + 1 /\ ri' = 1 /\ UNCHANGED <<pc, ei>>
    ELSE pc' = "event" /\ ei' = ei + 1 /\ hi' = 0 /\ ri' = 0

\* a slip: the annotated rows written to the first heat of the race
SetParticipants_first_heat(ps) ==
    series' = [series EXCEPT
                  ![athlete_result_url] =
                      Some([race_series_results EXCEPT ![ei].heats[1].participants = ps])]

\* the rows of the heat are objects of the scraped tree: lines 213-218 write to it
SetParticipants(ps) ==
    series' = [series EXCEPT
                  ![athlete_result_url] =
                      Some([race_series_results EXCEPT ![ei].heats[hi].participants = ps])]

\* a slip: the test of line 206 off by one
IsDuplicate_above_two(ms) == Cardinality(ms) > 2

\* line 206: len(matches) > 1
IsDuplicate(ms) == Cardinality(ms) > 1

\* lines 203-205: the name is on no row of the heat
NoMatch ==
    /\ pc = "pair"
    /\ matches = {}
    /\ StepPair
    /\ UNCHANGED <<series, gi, err, detailed_results, exported>>
    /\ UNCHANGED <<athlete_results_filtered, use_cached, site, call_vars>>

\* lines 206-209: the name is on several rows
RaiseDuplicate ==
    /\ pc = "pair"
    /\ matches # {}
    /\ IsDuplicate(matches)
    /\ Raise("duplicate_participant")
    /\ UNCHANGED series
    /\ UNCHANGED <<athlete_results_filtered, use_cached, site, call_vars>>

\* lines 212-220 ending in the ValueError of parse_heat_category
FormatErrorWith(n) ==
    /\ ~n.ok
    /\ SetParticipants(n.participants)
    /\ Raise("format")

RaiseFormat ==
    /\ pc = "pair"
    /\ matches # {}
    /\ ~IsDuplicate(matches)
    /\ FormatErrorWith(Normalize(heat.participants, heat_result_at))
    /\ UNCHANGED <<athlete_results_filtered, use_cached, site, call_vars>>

\* lines 227-236: merge and append
AppendMerged(merged) ==
    IF merged.ok
    THEN /\ detailed_results' = Append(detailed_results, Get(merged.value))
         /\ StepPair
         /\ UNCHANGED <<gi, err, exported>>
    ELSE Raise("identity_mismatch")

AlignWith(t, n) ==
    /\ n.ok
    /\ SetParticipants(n.participants)
    /\ AppendMerged(from_components(athlete_result, n.participants[t], heat, event,
                                    n.participants_in_cat, n.place_in_cat))

\* lines 210-236: normalise, merge, append
AlignPair ==
    /\ pc = "pair"
    /\ matches # {}
    /\ ~IsDuplicate(matches)
    /\ AlignWith(heat_result_at, Normalize(heat.participants, heat_result_at))
    /\ UNCHANGED <<athlete_results_filtered, use_cached, site, call_vars>>

\* line 188: the races of this url are done, on to the next url
EndSeries ==
    /\ pc = "event"
    /\ ei > Len(race_series_results)
    /\ gi' = gi + 1
    /\ pc' = IF gi < Len(groups.keys) THEN "scrape" ELSE "export"
    /\ ei' = 0
    /\ UNCHANGED <<series, hi, ri, err, detailed_results, exported>>
    /\ UNCHANGED <<athlete_results_filtered, use_cached, site, call_vars>>

\* lines 249-270: the csv is written when there is something to write
Export ==
    /\ pc = "export"
    /\ exported' = IF detailed_results # <<>>
                   THEN Some([i \in 1..Len(detailed_results) |-> ExportRow(detailed_results[i])])
                   ELSE None
    /\ pc' = "done"
    /\ UNCHANGED <<series, gi, ei, hi, ri, err, detailed_results>>
    /\ UNCHANGED <<athlete_results_filtered, use_cached, site, call_vars>>

Next ==
    \/ ScrapeCached
    \/ ScrapeInline
    \/ ScrapeTable
    \/ SkipEvent
    \/ EnterEvent
    \/ NoMatch
    \/ RaiseDuplicate
    \/ RaiseFormat
    \/ AlignPair
    \/ EndSeries
    \/ Export

Spec == Init /\ [][Next]_vars

(***************************************************************************)
(* The parser on its own: one call of parse_heat_category on a token drawn  *)
(* from a bounded set of texts.                                             *)
(***************************************************************************)
FreeAlphabet == {"1", "2", " ", "-", "C", "a", "t", "x"}
FreeTexts == SeqsUpTo(FreeAlphabet, MaxTokLen)

\* texts built around the pattern: affix, digits, blanks, '-', blanks, word, digits, affix
ModelDigits == {"0", "1", "2"}
DigitTexts == SeqsUpTo(ModelDigits, MaxDigits) \ {<<>>}
Blanks == {<<>>, <<" ">>}
Affixes == {<<>>, <<"x">>, <<"1">>}
Words == {<<"C", "a", "t">>, <<"c", "a", "t">>, <<"C", "A", "T">>, <<"C", "o", "t">>}
PatternTexts ==
    {pre \o p \o w1 \o <<"-">> \o w2 \o word \o c \o suf :
        pre \in Affixes, p \in DigitTexts, w1 \in Blanks, w2 \in Blanks,
        word \in Words, c \in DigitTexts, suf \in Affixes}

\* the tokens the specification's examples name
ExampleTexts ==
    { <<"D", "N", "F">>,
      <<"1", "2", "-", "3">>,
      <<>>,
      <<"1", "2", " ", "-", " ", "C", "a", "t", "3">> }

TokenInputs ==
    {None} \cup {Some(t) : t \in FreeTexts \cup PatternTexts \cup ExampleTexts}

MainIdle ==
    /\ athlete_results_filtered = <<>>
    /\ use_cached = FALSE
    /\ site = <<>>
    /\ series = <<>>
    /\ gi = 0 /\ ei = 0 /\ hi = 0 /\ ri = 0
    /\ pc = "idle"
    /\ err = "none"
    /\ detailed_results = <<>>
    /\ exported = None

ParseInit ==
    /\ token \in TokenInputs
    /\ parse_result = None
    /\ MergeIdle /\ SplitIdle
    /\ MainIdle

\* the call parse_heat_category(token)
ParseCall ==
    /\ IsNone(parse_result)
    /\ parse_result' = Some(parse_heat_category(token))
    /\ UNCHANGED <<token, merge_vars, split_vars, main_vars>>

ParseNext == ParseCall

SpecParse == ParseInit /\ [][ParseNext]_vars

(***************************************************************************)
(* The merger on its own: one call of from_components, by any caller, on a  *)
(* summary record and a heat row that carry every field of the classes.     *)
(* A summary record of the WebScraper carries usac_number, bib and team as  *)
(* extra fields (scraper.py 207-224); one built without them does not.      *)
(***************************************************************************)
SummaryExtras ==
    { [usac_number |-> <<"6", "4">>, bib |-> "601", team |-> "Hamburg"],
      [usac_number |-> <<"6", "5">>, bib |-> "602", team |-> "Hamburg"] }

SummaryRecords ==
    LET plain == {update(AthleteResult(1, n, 1, "u1"), [place |-> pl]) :
                     n \in Names, pl \in {None, Some(2)}}
    IN  plain \cup {update(r, x) : r \in plain, x \in SummaryExtras}

HeatRows ==
    {[place |-> pl, name |-> n, category |-> Tok("3", "2"),
      usac_number |-> u, bib |-> b, team |-> Some("Apex")] :
        pl \in {1, 5}, n \in Names, u \in {None, Some(64)}, b \in {None, Some("12")}}

ComponentInputs ==
    {[result |-> r, heat_result |-> h,
      heat |-> Heat(<<1, 1>>, <<>>), event |-> RaceEvent(1, 1, <<>>),
      participants_in_cat |-> 2, place_in_cat |-> k] :
        r \in SummaryRecords, h \in HeatRows, k \in {1, 2}}

MergeInit ==
    /\ components \in {Some(c) : c \in ComponentInputs}
    /\ detailed_result = None
    /\ ParseIdle /\ SplitIdle
    /\ MainIdle

\* the call AthleteResultDetailed.from_components(**components)
MergeCall ==
    /\ ~IsNone(components)
    /\ IsNone(detailed_result)
    /\ detailed_result' =
           Some(from_components(Get(components).result, Get(components).heat_result,
                                Get(components).heat, Get(components).event,
                                Get(components).participants_in_cat,
                                Get(components).place_in_cat))
    /\ UNCHANGED <<components, parse_vars, split_vars, main_vars>>

MergeNext == MergeCall

SpecMerge == MergeInit /\ [][MergeNext]_vars

(***************************************************************************)
(* WebScraper.split_place (src/scraper.py 68-89) on its own.  The result is *)
(* the pair returned, or ok = FALSE for the ValueError of the unpacking.     *)
(***************************************************************************)
\* str.strip(): blanks off both ends
RECURSIVE lstrip(_)
lstrip(t) == IF t # <<>> /\ IsSpace(Head(t)) THEN lstrip(Tail(t)) ELSE t
RECURSIVE rstrip(_)
rstrip(t) ==
    IF t # <<>> /\ IsSpace(t[Len(t)]) THEN rstrip(SubSeq(t, 1, Len(t) - 1)) ELSE t
strip(t) == rstrip(lstrip(t))

\* str.isdigit(): at least one character, every character a digit
isdigit(t) == t # <<>> /\ \A i \in 1..Len(t) : IsDigit(t[i])

\* str.split('/'): the pieces between the slashes, empty pieces included
RECURSIVE SplitFrom(_, _, _)
SplitFrom(t, i, piece) ==
    IF i > Len(t) THEN <<piece>>
    ELSE IF t[i] = "/" THEN <<piece>> \o SplitFrom(t, i + 1, <<>>)
    ELSE SplitFrom(t, i + 1, Append(piece, t[i]))
split(t) == SplitFrom(t, 1, <<>>)

DNFText == <<"D", "N", "F">>

Pair(place, participant_count) ==
    [ok |-> TRUE, place |-> place, participant_count |-> participant_count]
UnpackError == [ok |-> FALSE, place |-> None, participant_count |-> None]

\* line 86
PlaceOf(place_str) == IF place_str = DNFText THEN None ELSE Some(place_str)

\* lines 85-86: the unpacking wants exactly two pieces
FromPieces(pieces) ==
    IF Len(pieces) # 2 THEN UnpackError
    ELSE Pair(PlaceOf(strip(pieces[1])), Some(strip(pieces[2])))

split_place(s) ==
    IF IsNone(s) \/ Get(s) = <<>> THEN Pair(None, None)
    ELSE IF isdigit(strip(Get(s)))
         THEN Pair(PlaceOf(strip(Get(s))), Some(strip(Get(s))))
    ELSE FromPieces(split(Get(s)))

\* the texts of the place column: place, blanks, slash, blanks, count
PlaceTexts == {<<>>, <<"2">>, <<"1", "2">>, DNFText, <<"D", "N", "S">>}
Slashes == {<<>>, <<"/">>, <<"/", "/">>}
CountTexts == {<<>>, <<"7">>, <<"1", "7">>}
PlaceInputs ==
    {None} \cup
    {Some(w0 \o p \o w1 \o sep \o w2 \o c) :
        w0 \in Blanks, p \in PlaceTexts, w1 \in Blanks, sep \in Slashes,
        w2 \in Blanks, c \in CountTexts}

SplitInit ==
    /\ place_participant \in PlaceInputs
    /\ split_result = None
    /\ ParseIdle /\ MergeIdle
    /\ MainIdle

\* the call split_place(place_participant)
SplitCall ==
    /\ IsNone(split_result)
    /\ split_result' = Some(split_place(place_participant))
    /\ UNCHANGED <<place_participant, parse_vars, merge_vars, main_vars>>

SplitNext == SplitCall

SpecSplit == SplitInit /\ [][SplitNext]_vars

(***************************************************************************)
(* What the claims speak of, read off the inputs and the output list.       *)
(***************************************************************************)
Outputs == 1..Len(detailed_results)

\* the heat an output record names, as the publisher holds it
SourceHeat(dr) == site[dr.event_url][dr.race_event_id].heats[dr.heat_id[2]]
SourceRoster(dr) == SourceHeat(dr).participants

\* the rows of a roster carrying a name
RowsNamed(roster, name) == {i \in 1..Len(roster) : roster[i].name = name}

\* the row of the output's athlete in its heat
TargetRow(dr) == CHOOSE i \in RowsNamed(SourceRoster(dr), dr.name) : TRUE

CodeOf(row) == parse_heat_category(row.category).cat
RawPlaceOf(row) == parse_heat_category(row.category).place

\* the rows of a roster whose parsed category code is that of row t
SameCategory(roster, t) ==
    {i \in 1..Len(roster) : CodeOf(roster[i]) = CodeOf(roster[t])}

\* a raw place that counts as a finish: neither null nor 0
Finished(row) == ~IsNone(RawPlaceOf(row)) /\ Get(RawPlaceOf(row)) > 0

\* row i finished strictly ahead of row j: a null or 0 place is behind every
\* positive one and level with another null or 0
Ahead(roster, i, j) ==
    /\ Finished(roster[i])
    /\ Finished(roster[j]) => Get(RawPlaceOf(roster[i])) < Get(RawPlaceOf(roster[j]))

\* the rows of t's category that the ordering puts in front of t
InFrontOf(roster, t) ==
    {i \in SameCategory(roster, t) \ {t} :
        Ahead(roster, i, t) \/ (~Ahead(roster, t, i) /\ i < t)}

\* C1: place_in_cat is the 1-based position of the target among the rows of its
\* category ordered by raw place ascending, a null or 0 raw place behind every
\* positive one, ties kept in roster order.
C1_PlaceInCategory ==
    \A k \in Outputs :
        LET dr == detailed_results[k]
        IN  dr.place_in_cat = 1 + Cardinality(InFrontOf(SourceRoster(dr), TargetRow(dr)))

\* C1 witness: a target with raw place 0 is ranked third, behind a positive
\* place that follows it in the roster and behind an earlier 0
C1_Witness ==
    \E k \in Outputs :
        LET dr == detailed_results[k]
            roster == SourceRoster(dr)
        IN  /\ Len(roster) = 3
            /\ TargetRow(dr) = 2
            /\ roster[1].category = Tok("0", "2")
            /\ roster[2].category = Tok("0", "2")
            /\ roster[3].category = Tok("5", "2")
            /\ dr.place_in_cat = 3

\* C2: participants_in_cat is the number of roster rows of the heat whose parsed
\* category code equals the target's, the target included.
C2_ParticipantsInCategory ==
    \A k \in Outputs :
        LET dr == detailed_results[k]
        IN  dr.participants_in_cat
                = Cardinality(SameCategory(SourceRoster(dr), TargetRow(dr)))

\* C2 witness: the roster ["3 - Cat2", "1 - Cat2"] of the end-to-end scenario
\* gives participants_in_cat = 2 and place_in_cat = 2
C2_Witness ==
    \E k \in Outputs :
        LET dr == detailed_results[k]
            roster == SourceRoster(dr)
        IN  /\ Len(roster) = 2
            /\ dr.name = "A. Rider" /\ TargetRow(dr) = 1
            /\ roster[1].category = Tok("3", "2")
            /\ roster[2].category = Tok("1", "2")
            /\ dr.participants_in_cat = 2
            /\ dr.place_in_cat = 2

\* the roster without the rows of another category than row t's
OwnCategoryOnly(roster, t) ==
    SelectSeq(roster, LAMBDA p : CodeOf(p) = CodeOf(roster[t]))

\* well-formed rows of another category than row t's, under another name
ForeignRows(roster, t) ==
    {row \in {AthleteResultHeat(9, "C. Third", c) :
                 c \in {None, Tok("1", "2"), Tok("0", "3")}} :
        CodeOf(row) # CodeOf(roster[t])}

\* C3: place_in_cat and participants_in_cat depend only on the rows of the
\* target's category: they are what the normaliser gives on the roster with every
\* row of another category removed, so two heats that agree on the rows of the
\* target's category (and their order) give the same two values.
\* And a heat that differs by one more well-formed row of another category,
\* anywhere in the roster, gives the same two values.
C3_OnlyOwnCategory ==
    \A k \in Outputs :
        LET dr == detailed_results[k]
            roster == SourceRoster(dr)
            own == OwnCategoryOnly(roster, TargetRow(dr))
            alone == Normalize(own, CHOOSE i \in RowsNamed(own, dr.name) : TRUE)
        IN  /\ alone.ok
            /\ dr.participants_in_cat = alone.participants_in_cat
            /\ dr.place_in_cat = alone.place_in_cat
            /\ \A extra \in ForeignRows(roster, TargetRow(dr)), at \in 0..Len(roster) :
                   LET wider == SubSeq(roster, 1, at) \o <<extra>>
                                    \o SubSeq(roster, at + 1, Len(roster))
                       other == Normalize(wider, CHOOSE i \in RowsNamed(wider, dr.name) : TRUE)
                   IN  /\ other.ok
                       /\ other.participants_in_cat = dr.participants_in_cat
                       /\ other.place_in_cat = dr.place_in_cat

\* C3 witness: a result from a heat that also holds a row of another category,
\* placed ahead of the target in the roster with a smaller raw place
C3_Witness ==
    \E k \in Outputs :
        LET dr == detailed_results[k]
            roster == SourceRoster(dr)
        IN  /\ Len(roster) = 3
            /\ TargetRow(dr) = 3
            /\ roster[1].category = Tok("2", "3")
            /\ roster[2].category = Tok("2", "2")
            /\ roster[3].category = Tok("5", "2")
            /\ dr.participants_in_cat = 2
            /\ dr.place_in_cat = 2

\* the records of the athlete on an event url and a date, read off the input
RecordsOn(u, d) ==
    {i \in 1..Len(athlete_results_filtered) :
        /\ athlete_results_filtered[i].event_url = u
        /\ athlete_results_filtered[i].event_date = d}

Scraped(u) == ~IsNone(series[u])

\* a roster as scraped: no row annotated, every place the scraped one
Untouched(participants) ==
    \A i \in 1..Len(participants) :
        /\ ~participants[i].annotated
        /\ participants[i].place = Some(i)
        /\ IsNone(participants[i].parsed_place)
        /\ IsNone(participants[i].parsed_cat)

\* the heat the loop is at holds a row without a category annotation only
AllRowsNull(participants) ==
    \A i \in 1..Len(participants) : IsNone(participants[i].category)

\* C8: a null token parses to (null, null) and never raises: rows without a
\* category annotation are annotated with a null place and a null code, they make
\* up the null-code category of their heat (counted and ranked among themselves
\* in roster order), and a heat of such rows alone never raises the format error.
C8_NullToken ==
    /\ \A u \in Urls : Scraped(u) =>
          \A e \in 1..Len(Get(series[u])) : \A h \in 1..Len(Get(series[u])[e].heats) :
              \A i \in 1..Len(Get(series[u])[e].heats[h].participants) :
                  LET p == Get(series[u])[e].heats[h].participants[i]
                  IN  (p.annotated /\ IsNone(p.category))
                          => (IsNone(p.parsed_place) /\ IsNone(p.parsed_cat))
    /\ \A k \in Outputs :
          LET dr == detailed_results[k]
              roster == SourceRoster(dr)
              nulls == {i \in 1..Len(roster) : IsNone(roster[i].category)}
          IN  IsNone(dr.category) =>
                  /\ dr.participants_in_cat = Cardinality(nulls)
                  /\ dr.place_in_cat = Cardinality({i \in nulls : i <= TargetRow(dr)})
    /\ (pc = "failed" /\ err = "format") => ~AllRowsNull(heat.participants)

\* C8 witness: an athlete without category annotation, second of two such rows
\* in a heat that also holds an annotated row, has been given 2 of 2
C8_Witness ==
    \E k \in Outputs :
        LET dr == detailed_results[k]
            roster == SourceRoster(dr)
        IN  /\ Len(roster) = 3
            /\ IsNone(roster[1].category)
            /\ IsNone(roster[2].category)
            /\ roster[3].category = Tok("2", "2")
            /\ TargetRow(dr) = 2
            /\ IsNone(dr.category)
            /\ dr.participants_in_cat = 2
            /\ dr.place_in_cat = 2

\* the races of a scraped series on whose date the athlete has no record
UnmatchedEvents(u) ==
    {e \in 1..Len(Get(series[u])) : RecordsOn(u, Get(series[u])[e].event_date) = {}}

\* C9 (state part): a race dated as no summary record of the series has no
\* DetailedResult and its rosters are as scraped.
C9_SkippedEventUntouched ==
    \A u \in Urls : Scraped(u) =>
        \A e \in UnmatchedEvents(u) :
            /\ \A k \in Outputs :
                  ~(detailed_results[k].event_url = u
                      /\ detailed_results[k].race_event_id = Get(series[u])[e].id)
            /\ \A h \in 1..Len(Get(series[u])[e].heats) :
                  Untouched(Get(series[u])[e].heats[h].participants)

\* C9 (step part): at such a race the loop only moves on to the next race: no
\* heat is entered, nothing is appended or annotated, no error is raised.
C9_SkipStep ==
    (pc = "event" /\ ei <= Len(race_series_results)
        /\ RecordsOn(athlete_result_url, event.event_date) = {})
    => /\ ei' = ei + 1
       /\ pc' = "event"
       /\ err' = err
       /\ detailed_results' = detailed_results
       /\ series' = series

\* C9: a RaceEvent whose date is the event date of no summary record of the
\* series is skipped entirely: no DetailedResult, no heat matched, parsed or
\* annotated, and no error from a malformed token or a duplicated name in it.
C9_UnmatchedEventSkipped == [](C9_SkippedEventUntouched) /\ [][C9_SkipStep]_vars

\* C9 witness: the run has completed although a skipped race holds a malformed
\* token and another skipped race holds a duplicated name
C9_Witness ==
    /\ pc = "done"
    /\ Scraped("u1")
    /\ \E e1, e2 \in UnmatchedEvents("u1") :
          /\ Get(series["u1"])[e1].heats[1].participants
                = Roster(<< <<"A. Rider", DNF>> >>)
          /\ Get(series["u1"])[e2].heats[1].participants
                = Roster(<< <<"A. Rider", Tok("1", "2")>>, <<"A. Rider", Tok("2", "2")>> >>)

(***************************************************************************)
(* Where the loop stands with respect to a heat.  Heats are named by the    *)
(* url, the position e of the race in the scraped series and the position h *)
(* of the heat in the race.                                                 *)
(***************************************************************************)
KeyIndex(u) == CHOOSE g \in 1..Len(groups.keys) : groups.keys[g] = u
InKeys(u) == \E g \in 1..Len(groups.keys) : groups.keys[g] = u

HeatsOf(u) ==
    {eh \in (1..Len(Get(series[u]))) \X (1..MaxHeats + 1) :
        eh[2] <= Len(Get(series[u])[eh[1]].heats)}

RosterAt(u, e, h) == Get(series[u])[e].heats[h].participants

\* the loop has dealt with every record at the heat and gone on
Passed(u, e, h) ==
    \/ KeyIndex(u) < gi
    \/ /\ KeyIndex(u) = gi
       /\ \/ e < ei
          \/ e = ei /\ pc \in {"pair", "failed"} /\ h < hi

\* the run has failed while at the heat
FailedAt(u, e, h) ==
    /\ pc = "failed" /\ err # "multiple_results"
    /\ KeyIndex(u) = gi /\ e = ei /\ h = hi

\* the results appended for the heat
ResultsOf(u, e, h) ==
    {k \in Outputs :
        /\ detailed_results[k].event_url = u
        /\ detailed_results[k].heat_id = Get(series[u])[e].heats[h].heat_id}

\* the series has one record per event date and one race per such date
OneRecordOneRace(u) ==
    \A i \in 1..Len(athlete_results_filtered) :
        athlete_results_filtered[i].event_url = u =>
            /\ RecordsOn(u, athlete_results_filtered[i].event_date) = {i}
            /\ Cardinality({e \in 1..Len(Get(series[u])) :
                   Get(series[u])[e].event_date = athlete_results_filtered[i].event_date}) = 1

\* the name of the one record on the date of race e
NameOn(u, e) ==
    athlete_results_filtered[
        CHOOSE i \in RecordsOn(u, Get(series[u])[e].event_date) : TRUE].name

Parses(participants) ==
    \A i \in 1..Len(participants) : parse_heat_category(participants[i].category).ok

\* C4 as stated: with one record per event date and one race per such date, a
\* run that has ended has exactly one DetailedResult for every heat of a matched
\* race whose roster has exactly one row with the athlete's name, and for a heat
\* without such a row it has none and did not fail there.
C4_OnePerHeatWithTheName ==
    pc \in {"done", "failed"} =>
        \A u \in Urls : (InKeys(u) /\ Scraped(u) /\ OneRecordOneRace(u)) =>
            \A eh \in HeatsOf(u) :
                RecordsOn(u, Get(series[u])[eh[1]].event_date) # {} =>
                    LET rows == RowsNamed(RosterAt(u, eh[1], eh[2]), NameOn(u, eh[1]))
                        n == Cardinality(ResultsOf(u, eh[1], eh[2]))
                    IN  /\ Cardinality(rows) = 1 => n = 1
                        /\ rows = {} => (n = 0 /\ ~FailedAt(u, eh[1], eh[2]))

\* C4 amended: the heat has its one DetailedResult once the loop has passed it;
\* a heat with exactly one row of the name where the run fails has none, and the
\* failure is the format error of a category token of that roster; a heat without
\* the name has none and the run never fails there.
C4_OnePerPassedHeat ==
    \A u \in Urls : (InKeys(u) /\ Scraped(u) /\ OneRecordOneRace(u)) =>
        \A eh \in HeatsOf(u) :
            RecordsOn(u, Get(series[u])[eh[1]].event_date) # {} =>
                LET rows == RowsNamed(RosterAt(u, eh[1], eh[2]), NameOn(u, eh[1]))
                    n == Cardinality(ResultsOf(u, eh[1], eh[2]))
                IN  /\ Cardinality(rows) = 1 =>
                        /\ n = IF Passed(u, eh[1], eh[2]) THEN 1 ELSE 0
                        /\ FailedAt(u, eh[1], eh[2]) =>
                              (err = "format" /\ ~Parses(RosterAt(u, eh[1], eh[2])))
                    /\ rows = {} => (n = 0 /\ ~FailedAt(u, eh[1], eh[2]))

\* C4 witness: a completed run over a race of two heats, the first with one row
\* of the athlete and one result, the second without the athlete and without result
C4_Witness ==
    /\ pc = "done"
    /\ Scraped("u1") /\ OneRecordOneRace("u1")
    /\ Len(athlete_results_filtered) = 1
    /\ Len(Get(series["u1"])) = 1
    /\ Len(Get(series["u1"])[1].heats) = 2
    /\ Cardinality(RowsNamed(RosterAt("u1", 1, 1), "A. Rider")) = 1
    /\ RowsNamed(RosterAt("u1", 1, 2), "A. Rider") = {}
    /\ Cardinality(ResultsOf("u1", 1, 1)) = 1
    /\ ResultsOf("u1", 1, 2) = {}

\* two rows of the roster carry the same name
HasDuplicateNames(participants) ==
    \E i, j \in 1..Len(participants) : i # j /\ participants[i].name = participants[j].name

\* C5 as stated: whenever a heat the loop visits holds two rows with identical
\* names, the run fails there with the duplicate-participant error and no
\* DetailedResult of that heat has been appended.
C5_AnyDuplicateNameFails ==
    \A u \in Urls : (InKeys(u) /\ Scraped(u)) =>
        \A eh \in HeatsOf(u) :
            (/\ RecordsOn(u, Get(series[u])[eh[1]].event_date) # {}
             /\ HasDuplicateNames(RosterAt(u, eh[1], eh[2]))
             /\ (Passed(u, eh[1], eh[2]) \/ FailedAt(u, eh[1], eh[2])))
            => /\ FailedAt(u, eh[1], eh[2])
               /\ err = "duplicate_participant"
               /\ ResultsOf(u, eh[1], eh[2]) = {}

\* C5 amended (step part): when the record being matched names two or more rows
\* of the heat, the step fails with the duplicate-participant error and appends
\* and annotates nothing.
C5_DuplicateStep ==
    (pc = "pair" /\ Cardinality(RowsNamed(heat.participants, athlete_result.name)) > 1)
    => /\ pc' = "failed"
       /\ err' = "duplicate_participant"
       /\ detailed_results' = detailed_results
       /\ series' = series

\* C5 amended (state part): the duplicate-participant error is raised only for
\* the name of the record being matched, and no DetailedResult exists for a
\* record and a heat that holds its name twice.
C5_DuplicateState ==
    /\ (pc = "failed" /\ err = "duplicate_participant")
          => Cardinality(RowsNamed(heat.participants, athlete_result.name)) > 1
    /\ \A k \in Outputs :
          Cardinality(RowsNamed(SourceRoster(detailed_results[k]),
                                detailed_results[k].name)) = 1

\* C5 amended: the error is raised when, and only when, the name of the summary
\* record being matched is on two or more rows of the visited heat; no
\* DetailedResult is appended for that record and heat.  Names no record carries
\* may repeat undetected, and a result appended for an earlier record of the same
\* heat stays in the list.
C5_DuplicateOfMatchedName == [](C5_DuplicateState) /\ [][C5_DuplicateStep]_vars

\* C5 witness: the run has failed on a duplicated name in a heat for which an
\* earlier record already has its DetailedResult
C5_Witness ==
    /\ pc = "failed" /\ err = "duplicate_participant"
    /\ ResultsOf(athlete_result_url, ei, hi) # {}

\* the (record, heat) pairs of url u the claim speaks of, on the series as the
\* publisher holds it: <<record, race, heat>>
Pairs(u) ==
    {t \in (1..Len(athlete_results_filtered)) \X (1..Len(site[u])) \X (1..MaxHeats + 1) :
        /\ athlete_results_filtered[t[1]].event_url = u
        /\ site[u][t[2]].event_date = athlete_results_filtered[t[1]].event_date
        /\ t[3] <= Len(site[u][t[2]].heats)
        /\ Cardinality(RowsNamed(site[u][t[2]].heats[t[3]].participants,
                                 athlete_results_filtered[t[1]].name)) = 1}

\* the results appended for a record and a heat of the publisher's series
ResultsOfPair(u, t) ==
    {k \in Outputs :
        /\ detailed_results[k].event_url = u
        /\ detailed_results[k].row = athlete_results_filtered[t[1]].row
        /\ detailed_results[k].heat_id = site[u][t[2]].heats[t[3]].heat_id}

EveryPairOnce(u) ==
    /\ \A t \in Pairs(u) : Cardinality(ResultsOfPair(u, t)) = 1
    /\ \A k \in Outputs :
          detailed_results[k].event_url = u => \E t \in Pairs(u) : k \in ResultsOfPair(u, t)

\* no roster of the series holds a token that fails to parse or a name twice
Clean(u) ==
    \A e \in 1..Len(site[u]) : \A h \in 1..Len(site[u][e].heats) :
        /\ Parses(site[u][e].heats[h].participants)
        /\ ~HasDuplicateNames(site[u][e].heats[h].participants)

\* C10: within one series every pair (record r, heat h of a race dated
\* r.event_date whose roster holds r.name exactly once) yields exactly one
\* DetailedResult and nothing else does, several records on one date each being
\* matched separately: so it is when the run is done, and a run over rosters
\* without a malformed token or a repeated name does not end otherwise.
C10_EveryPairOnce ==
    (pc = "done" \/ (pc = "failed" /\ err = "multiple_results" /\ Clean(athlete_result_url)))
        => \A u \in Urls : (InKeys(u) /\ KeyIndex(u) <= gi) => EveryPairOnce(u)

\* what holds of the code: the pairs of every series that was scraped are there
\* once the run is done
C10_EveryPairOnceWhenDone ==
    pc = "done" => \A u \in Urls : InKeys(u) => EveryPairOnce(u)

(***************************************************************************)
(* The order of the output list.                                            *)
(***************************************************************************)
\* the position in the scraped series of the race an output names
EventPos(dr) ==
    CHOOSE e \in 1..Len(Get(series[dr.event_url])) :
        Get(series[dr.event_url])[e].id = dr.race_event_id

\* series, race, heat, record: where the pair of an output stands in the
\* processing order (row is the record's place in the filtered list, which
\* is its place in its date group too)
OrderKey(dr) == <<KeyIndex(dr.event_url), EventPos(dr), dr.heat_id[2], dr.row>>

RECURSIVE LexLess(_, _)
LexLess(a, b) ==
    IF a = <<>> THEN FALSE
    ELSE Head(a) < Head(b) \/ (Head(a) = Head(b) /\ LexLess(Tail(a), Tail(b)))

OutputsInOrder ==
    \A k, l \in Outputs :
        k < l => LexLess(OrderKey(detailed_results[k]), OrderKey(detailed_results[l]))

AppendOnly ==
    \/ detailed_results' = detailed_results
    \/ /\ Len(detailed_results') = Len(detailed_results) + 1
       /\ SubSeq(detailed_results', 1, Len(detailed_results)) = detailed_results

\* C11: the output list is in processing order: by series in order of first
\* appearance of the url among the filtered records, then by race within the
\* series, then by heat within the race, then by record within the date group;
\* of two outputs the earlier in this order was appended first, and the list
\* only ever grows at its end.
C11_OutputOrder == [](OutputsInOrder) /\ [][AppendOnly]_vars

\* C11 witness: two heats and two records, the second record of the list first
\* in neither heat: four outputs, heat by heat, record by record within the heat
C11_Witness ==
    /\ Len(detailed_results) = 4
    /\ detailed_results[1].name = "B. Other" /\ detailed_results[1].row = 1
    /\ detailed_results[2].name = "A. Rider" /\ detailed_results[2].row = 2
    /\ detailed_results[1].heat_id = detailed_results[2].heat_id
    /\ detailed_results[3].heat_id # detailed_results[1].heat_id
    /\ detailed_results[3].row = 1

\* the series order at work: the url of the first record, "u2", comes first
C11_SeriesInOrderOfAppearance ==
    /\ Len(detailed_results) = 2
    /\ detailed_results[1].event_url = "u2" /\ detailed_results[1].row = 1
    /\ detailed_results[2].event_url = "u1" /\ detailed_results[2].row = 2

(***************************************************************************)
(* Two races of one series on the date of a record.                         *)
(***************************************************************************)
\* a record of url u falls on the date of more than one race of the series
AmbiguousDate(u) ==
    \E i \in 1..Len(athlete_results_filtered) :
        /\ athlete_results_filtered[i].event_url = u
        /\ Cardinality({e \in 1..Len(Get(series[u])) :
               Get(series[u])[e].event_date = athlete_results_filtered[i].event_date}) > 1

\* two outputs of url u for one record come from different races
FromBothRaces(u) ==
    \E k, l \in Outputs :
        /\ detailed_results[k].event_url = u /\ detailed_results[l].event_url = u
        /\ detailed_results[k].row = detailed_results[l].row
        /\ detailed_results[k].race_event_id # detailed_results[l].race_event_id

\* C12: when the date of a summary record is the date of more than one race of
\* its series, the run does not get through that series and never holds
\* DetailedResults of one record from both races.
C12_AmbiguousDateIsAnError ==
    \A u \in Urls : (InKeys(u) /\ Scraped(u) /\ AmbiguousDate(u)) =>
        /\ ~(KeyIndex(u) < gi)
        /\ ~FromBothRaces(u)

\* what the code does: a completed run with the results of one record from two
\* races of the same date
C12_BothRacesAligned ==
    /\ pc = "done"
    /\ AmbiguousDate("u1")
    /\ FromBothRaces("u1")

(***************************************************************************)
(* Errors and the export.                                                   *)
(***************************************************************************)
\* what has left main(): the rows of detailed_results_export.csv
ExportedRows == IF IsNone(exported) THEN <<>> ELSE Get(exported)

NothingExportedOnError ==
    /\ err # "none" => (pc = "failed" /\ ExportedRows = <<>>)
    /\ ExportedRows # <<>> =>
          /\ pc = "done" /\ gi > Len(groups.keys)
          /\ Len(ExportedRows) = Len(detailed_results)

\* a failed run takes no further step: no retry, no export
NoStepAfterError == pc # "failed"

\* C13: an error raised while a series is reconciled (malformed token, duplicate
\* participant, several records on a date, identity mismatch) ends the run
\* there: no step follows it, and nothing is exported, so the export never holds
\* a partial set of results of a series that failed; an export that exists holds
\* every result of a run that got through all its series.
C13_ErrorAbortsBeforeExport == [](NothingExportedOnError) /\ [][NoStepAfterError]_vars

\* C13 witness: the run has failed on a malformed token of the second race of a
\* series whose first race already has its result in the list; nothing exported
C13_Witness ==
    /\ pc = "failed" /\ err = "format"
    /\ \E k \in Outputs : detailed_results[k].event_url = athlete_result_url
    /\ exported = None

(***************************************************************************)
(* The merged record.                                                       *)
(***************************************************************************)
Merged == ~IsNone(detailed_result) /\ Get(detailed_result).ok
MergedRecord == Get(Get(detailed_result).value)

\* the fields a summary record and a heat row both have
SharedFields == {"place", "usac_number", "bib", "team"}

\* other values a summary record, a heat row could hold in a shared field
OtherSummaryValues(f) ==
    CASE f = "place" -> {None, Some(2), Some(7)}
      [] f = "usac_number" -> {<<"6", "4">>, <<"6", "5">>, <<"9">>}
      [] f = "bib" -> {"601", "602"}
      [] f = "team" -> {"Hamburg", "Bloom"}

OtherHeatValues(f) ==
    CASE f = "place" -> {1, 5, 8}
      [] f = "usac_number" -> {None, Some(64), Some(9)}
      [] f = "bib" -> {None, Some("12")}
      [] f = "team" -> {Some("Apex"), None}

MergeOf(c) ==
    from_components(c.result, c.heat_result, c.heat, c.event,
                    c.participants_in_cat, c.place_in_cat)

\* the merged record holds the summary record's value of field f: with another
\* value there, the merged record would be another
KeepsSummaryValue(f) ==
    \A v \in OtherSummaryValues(f) \ {Get(components).result[f]} :
        MergeOf([Get(components) EXCEPT !.result[f] = v]) # Get(detailed_result)

KeepsHeatValue(f) ==
    \A v \in OtherHeatValues(f) \ {Get(components).heat_result[f]} :
        MergeOf([Get(components) EXCEPT !.heat_result[f] = v]) # Get(detailed_result)

\* C14: the record from_components builds keeps, for every field that is on both
\* the summary record and the heat row (place, and usac_number, bib, team when
\* the summary record carries them), the value of each source: neither is
\* overwritten or dropped, so that each can be read off the merged record.
C14_BothValuesKept ==
    Merged =>
        \A f \in SharedFields \cap DOMAIN Get(components).result :
            KeepsSummaryValue(f) /\ KeepsHeatValue(f)

\* what the code keeps: the summary record's place, and the heat row's
\* usac_number, bib and team
C14_OneValueKept ==
    Merged =>
        /\ KeepsSummaryValue("place")
        /\ MergedRecord.place = Get(components).result.place
        /\ \A f \in {"usac_number", "bib", "team"} :
              /\ KeepsHeatValue(f)
              /\ MergedRecord[f] = Get(components).heat_result[f]

\* the heat row's place is on no field, the summary record's extras are gone
C14_ValuesLost ==
    /\ Merged
    /\ "usac_number" \in DOMAIN Get(components).result
    /\ ~KeepsHeatValue("place")
    /\ \A f \in {"usac_number", "bib", "team"} : ~KeepsSummaryValue(f)

(***************************************************************************)
(* The name check of from_components.                                       *)
(***************************************************************************)
\* from_components on record i and row j of a heat, as any caller could call it
CheckOf(i, u, eh, j) ==
    from_components(athlete_results_filtered[i], RosterAt(u, eh[1], eh[2])[j],
                    Get(series[u])[eh[1]].heats[eh[2]], Get(series[u])[eh[1]], 1, 1)

NameCheckOnEveryPair ==
    \A i \in 1..Len(athlete_results_filtered), u \in Urls :
        (InKeys(u) /\ Scraped(u)) =>
            \A eh \in HeatsOf(u) : \A j \in 1..Len(RosterAt(u, eh[1], eh[2])) :
                LET same == athlete_results_filtered[i].name = RosterAt(u, eh[1], eh[2])[j].name
                    made == CheckOf(i, u, eh, j)
                IN  /\ made.ok <=> same
                    /\ ~same => made.value = None

\* C15: from_components fails with the identity mismatch and returns no record
\* whenever the names of the summary record and of the heat row differ, for any
\* record and any row it could be called with, and succeeds when they are equal;
\* and the alignment loop never fails with the identity mismatch.
C15_IdentityCheck == NameCheckOnEveryPair /\ err # "identity_mismatch"

\* C15 witness: the loop has merged a record with its row in a heat that also
\* holds a row of another name, for which the check fails
C15_Witness ==
    \E k \in Outputs :
        \E j \in 1..Len(SourceRoster(detailed_results[k])) :
            SourceRoster(detailed_results[k])[j].name # detailed_results[k].name

\* the same check on the call alone: the result is a record exactly when the
\* names are equal
C15_AnyCaller ==
    ~IsNone(detailed_result) =>
        /\ Get(detailed_result).ok
              <=> Get(components).result.name = Get(components).heat_result.name
        /\ ~Get(detailed_result).ok => Get(detailed_result).value = None

(***************************************************************************)
(* Annotation of a heat: lines 212-220 run once for each record whose name  *)
(* is on exactly one row of the heat.                                       *)
(***************************************************************************)
\* the step about to be taken runs lines 212-220 on the current heat
NormalizerStep ==
    pc = "pair" /\ Cardinality(RowsNamed(heat.participants, athlete_result.name)) = 1

AnyAnnotated(participants) == \E i \in 1..Len(participants) : participants[i].annotated
AllAnnotated(participants) == \A i \in 1..Len(participants) : participants[i].annotated

\* what annotation leaves on the rows
Annotations(participants) ==
    [i \in 1..Len(participants) |->
        <<participants[i].annotated, participants[i].parsed_place, participants[i].parsed_cat>>]

\* the scraped tree after the step, but for the rows of the current heat
OnlyCurrentHeatWritten ==
    series' = [series EXCEPT
                  ![athlete_result_url] =
                      Some([race_series_results EXCEPT
                               ![ei].heats[hi].participants =
                                   Get(series'[athlete_result_url])[ei].heats[hi].participants])]

\* C16 as stated: a Normalizer invocation never runs on a heat whose rows already
\* carry the annotations of an earlier invocation.
C16_NeverAnnotatedTwiceStep == NormalizerStep => ~AnyAnnotated(heat.participants)

C16_AnnotatedAtMostOnce == [][C16_NeverAnnotatedTwiceStep]_vars

\* C16 amended (step part): rows are written only by a Normalizer invocation and
\* only in the heat at hand; an invocation on a heat annotated before finds
\* every row annotated, does not fail and leaves the annotations as they were.
C16_AnnotationStep ==
    /\ (series' # series /\ pc # "scrape") => (NormalizerStep /\ OnlyCurrentHeatWritten)
    /\ (NormalizerStep /\ AnyAnnotated(heat.participants)) =>
          /\ AllAnnotated(heat.participants)
          /\ pc' # "failed"
          /\ Annotations(Get(series'[athlete_result_url])[ei].heats[hi].participants)
                = Annotations(heat.participants)

\* C16 amended (state part): a heat carries annotations only when a record on
\* its race's date has its name on exactly one of its rows.
C16_AnnotationState ==
    \A u \in Urls : (InKeys(u) /\ Scraped(u)) =>
        \A eh \in HeatsOf(u) :
            AnyAnnotated(RosterAt(u, eh[1], eh[2])) =>
                \E i \in RecordsOn(u, Get(series[u])[eh[1]].event_date) :
                    Cardinality(RowsNamed(RosterAt(u, eh[1], eh[2]),
                                          athlete_results_filtered[i].name)) = 1

\* C16 amended: a heat is annotated once for every summary record on its date
\* whose name is on exactly one of its rows, hence possibly several times, and
\* by nothing else; each further annotation rewrites the values of the first.
C16_AnnotatedPerMatchingRecord ==
    [](C16_AnnotationState) /\ [][C16_AnnotationStep]_vars

\* C16 witness: one heat has given two results, one for each of two records:
\* the Normalizer has run on it twice
C16_Witness ==
    \E k, l \in Outputs :
        /\ k < l
        /\ detailed_results[k].heat_id = detailed_results[l].heat_id
        /\ detailed_results[k].event_url = detailed_results[l].event_url
        /\ detailed_results[k].name # detailed_results[l].name

(***************************************************************************)
(* What scrape_event_series_page returns.                                   *)
(***************************************************************************)
\* the call for url u has been made: it returned, or it raised
ScrapeCalled(u) ==
    \/ Scraped(u)
    \/ pc = "failed" /\ err = "multiple_results" /\ athlete_result_url = u

\* every record given to the call whose date is the date of a race of the
\* series finds a race of its date in what was returned
MatchedRacesReturned(u) ==
    \A i \in 1..Len(athlete_results_filtered) :
        (/\ athlete_results_filtered[i].event_url = u
         /\ \E e \in 1..Len(site[u]) :
               site[u][e].event_date = athlete_results_filtered[i].event_date)
        => \E e \in 1..Len(Get(series[u])) :
               Get(series[u])[e].event_date = athlete_results_filtered[i].event_date

\* C17: scrape_event_series_page, called with a series url and the summary
\* records of that url, returns a series that holds, for every record whose
\* date is the date of a race of the series, a race of that date.
C17_ScrapeReturnsMatchedRaces ==
    \A u \in Urls :
        (InKeys(u) /\ ScrapeCalled(u)) => (Scraped(u) /\ MatchedRacesReturned(u))

\* what holds of the code: a call that returns has returned those races
C17_MatchedRacesWhenReturned ==
    \A u \in Urls : (InKeys(u) /\ Scraped(u)) => MatchedRacesReturned(u)

\* C19: every DetailedResult the loop has appended has
\* 1 <= place_in_cat <= participants_in_cat <= number of rows of its heat.
C19_RankWithinCategorySize ==
    \A k \in Outputs :
        /\ 1 <= detailed_results[k].place_in_cat
        /\ detailed_results[k].place_in_cat <= detailed_results[k].participants_in_cat
        /\ detailed_results[k].participants_in_cat <= Len(SourceRoster(detailed_results[k]))

\* C19 witness: last of a category of two in a heat of three rows
C19_Witness ==
    \E k \in Outputs :
        /\ detailed_results[k].place_in_cat = 2
        /\ detailed_results[k].participants_in_cat = 2
        /\ Len(SourceRoster(detailed_results[k])) = 3

(***************************************************************************)
(* Normalisation repeated on a heat.                                        *)
(***************************************************************************)
\* two runs of lines 212-225 agree on the two values and on the annotations
SameOutcome(a, b) ==
    /\ a.ok /\ b.ok
    /\ a.participants_in_cat = b.participants_in_cat
    /\ a.place_in_cat = b.place_in_cat
    /\ Annotations(a.participants) = Annotations(b.participants)

\* the run for row t on the rows another run has left
After(first, t) == Normalize(first.participants, t)

\* the rows of the output's heat as the run has left them
RosterNow(dr) ==
    Get(series[dr.event_url])[EventPos(dr)].heats[dr.heat_id[2]].participants

\* C20: for the heat and target of every result, the Normalizer gives the same
\* participants_in_cat, place_in_cat and row annotations on the heat as scraped,
\* on the heat it has itself annotated before, and on the heat annotated for any
\* other target; these are the values of the result and the annotations the run
\* has left on the heat.
C20_NormalizeIdempotent ==
    \A k \in Outputs :
        LET dr == detailed_results[k]
            first == Normalize(SourceRoster(dr), TargetRow(dr))
        IN  /\ first.ok
            /\ dr.participants_in_cat = first.participants_in_cat
            /\ dr.place_in_cat = first.place_in_cat
            /\ Annotations(RosterNow(dr)) = Annotations(first.participants)
            /\ SameOutcome(After(first, TargetRow(dr)), first)
            /\ \A t \in 1..Len(SourceRoster(dr)) :
                   SameOutcome(After(Normalize(SourceRoster(dr), t), TargetRow(dr)), first)

\* C20 witness: the second result of a heat, ranked behind the target of the
\* first: the Normalizer ran on rows it had annotated for another target
C20_Witness ==
    \E k, l \in Outputs :
        /\ k < l
        /\ detailed_results[k].heat_id = detailed_results[l].heat_id
        /\ detailed_results[k].event_url = detailed_results[l].event_url
        /\ detailed_results[k].place_in_cat = 1
        /\ detailed_results[l].place_in_cat = 2
        /\ detailed_results[l].participants_in_cat = 2

(***************************************************************************)
(* The grammar of the specification, stated on the whole token:             *)
(* <digits> blanks '-' blanks 'Cat' (any letter case) <digits>.             *)
(* A split <<a, b, c>> of t puts the place in t[1..a], the hyphen at b, the  *)
(* word at c..c+2 and the category code in t[c+3..Len(t)].                  *)
(***************************************************************************)
AllDigits(t) == Len(t) >= 1 /\ \A i \in 1..Len(t) : t[i] \in DigitChars
AllBlank(t) == \A i \in 1..Len(t) : t[i] = " "
IsCatWord(w) ==
    /\ Len(w) = 3
    /\ w[1] \in {"C", "c"} /\ w[2] \in {"A", "a"} /\ w[3] \in {"T", "t"}

GrammarSplits(t) ==
    {sp \in (1..Len(t)) \X (1..Len(t)) \X (1..Len(t)) :
        /\ sp[1] < sp[2] /\ sp[2] < sp[3] /\ sp[3] + 3 <= Len(t)
        /\ AllDigits(SubSeq(t, 1, sp[1]))
        /\ AllBlank(SubSeq(t, sp[1] + 1, sp[2] - 1))
        /\ t[sp[2]] = "-"
        /\ AllBlank(SubSeq(t, sp[2] + 1, sp[3] - 1))
        /\ IsCatWord(SubSeq(t, sp[3], sp[3] + 2))
        /\ AllDigits(SubSeq(t, sp[3] + 3, Len(t)))}

InGrammar(t) == GrammarSplits(t) # {}

\* the integer a digit string denotes, by the weight of each position
RECURSIVE Pow10(_)
Pow10(n) == IF n = 0 THEN 1 ELSE 10 * Pow10(n - 1)
RECURSIVE WeightedSum(_, _)
WeightedSum(ds, i) ==
    IF i > Len(ds) THEN 0
    ELSE DigitVal(ds[i]) * Pow10(Len(ds) - i) + WeightedSum(ds, i + 1)
Denotes(ds) == WeightedSum(ds, 1)

Called == ~IsNone(parse_result)
Result == Get(parse_result)

\* C6: parse_heat_category fails for every non-null token whose whole text is
\* not of the form <digits> blanks '-' blanks Cat <digits>, also when the token
\* only contains such a pattern among other characters.
C6_RejectsEveryTokenOutsideGrammar ==
    (Called /\ ~IsNone(token) /\ ~InGrammar(Get(token))) => ~Result.ok

\* C7: for every token of the form "<p> - Cat<c>", parse_heat_category returns
\* the integer p denotes as raw place and exactly the text c as category code.
C7_RoundTrip ==
    (Called /\ ~IsNone(token)) =>
        \A sp \in GrammarSplits(Get(token)) :
            LET p == SubSeq(Get(token), 1, sp[1])
                c == SubSeq(Get(token), sp[3] + 3, Len(Get(token)))
            IN  /\ Result.ok
                /\ Result.place = Some(Denotes(p))
                /\ Result.cat = Some(c)

\* C7 witness: "12 - Cat3" has been parsed into (12, "3")
C7_Witness ==
    /\ token = Some(<<"1", "2", " ", "-", " ", "C", "a", "t", "3">>)
    /\ Called
    /\ Result = Parsed(Some(12), Some(<<"3">>))

(***************************************************************************)
(* The four documented shapes of the place column.                          *)
(***************************************************************************)
SplitCalled == ~IsNone(split_result)
SplitGave == Get(split_result)

\* "p / c": a place (digits or DNF), ' / ', a count (digits)
SlashShape(t, p, c) ==
    /\ (AllDigits(p) \/ p = DNFText)
    /\ AllDigits(c)
    /\ t = p \o <<" ", "/", " ">> \o c

ShapeSplits(t) ==
    {pc2 \in (1..Len(t)) \X (1..Len(t)) :
        /\ pc2[1] + 3 = pc2[2]
        /\ SlashShape(t, SubSeq(t, 1, pc2[1]), SubSeq(t, pc2[2] + 1, Len(t)))}

\* C18: split_place returns a pair, without raising, for each documented shape:
\* "DNF" gives a null place; digits n give (n, n); "p / c" gives (p, c), with a
\* null place for "DNF / c"; an empty or missing value gives (null, null).
C18_DocumentedShapes ==
    SplitCalled =>
        /\ (IsNone(place_participant) \/ place_participant = Some(<<>>))
              => SplitGave = Pair(None, None)
        /\ place_participant = Some(DNFText)
              => (SplitGave.ok /\ SplitGave.place = None)
        /\ (~IsNone(place_participant) /\ AllDigits(Get(place_participant)))
              => SplitGave = Pair(place_participant, place_participant)
        /\ ~IsNone(place_participant) =>
              \A sp \in ShapeSplits(Get(place_participant)) :
                  LET p == SubSeq(Get(place_participant), 1, sp[1])
                      c == SubSeq(Get(place_participant), sp[2] + 1,
                                  Len(Get(place_participant)))
                  IN  SplitGave = Pair(IF p = DNFText THEN None ELSE Some(p), Some(c))

\* what holds of the code: the three shapes other than a bare "DNF"
C18_ShapesButBareDNF ==
    (SplitCalled /\ place_participant # Some(DNFText)) => C18_DocumentedShapes

\* the bare "DNF" raises, "DNF / 17" and "2 / 17" and "12" do not
C18_BareDNFRaises ==
    /\ SplitCalled
    /\ place_participant = Some(DNFText)
    /\ ~SplitGave.ok
====
